---- MODULE Spec2Model ----
(***************************************************************************)
(* The useTimer engine of the meditation timer (src/src/hooks/useTimer.ts) *)
(* as a state machine.                                                     *)
(*                                                                         *)
(* State: the hook's three useState cells (state, totalDuration,           *)
(* remainingTime), its three refs (intervalRef, startTimeRef,              *)
(* pausedTimeRef), the host's timer queue (the setInterval sources and the *)
(* setTimeout auto-reset callbacks that are still pending, each with the   *)
(* totalDuration its closure captured), the wall clock Date.now(), and     *)
(* whether the hook is still mounted.                                      *)
(*                                                                         *)
(* A step is a handler run or a render.  A command touches the refs and    *)
(* the timer queue at once and only batches its state updates; React 18    *)
(* renders them synchronously at the end of the event (eventRender).  A    *)
(* timer callback queues its state updates at default priority; React      *)
(* commits them in a render of a later task (render), and the render that  *)
(* ends an event in between skips them.  A command reads the state cells   *)
(* of the render that created it: the committed render for the functions   *)
(* passed as props, the render before it for a listener that a passive     *)
(* effect has not yet re-attached (passiveEffects).  The timer callbacks   *)
(* keep the totalDuration and config of the render that called start().    *)
(***************************************************************************)
EXTENDS Integers, Sequences, FiniteSets

\* ---------------------------------------------------------------- bounds

\* Date.now() at construction (ms).
Epoch == 7000
\* How far one Advance step moves the wall clock (ms); at least IntervalMs.
ClockStep == 30600
\* How many Advance steps a behaviour may take.
MaxAdvances == 3
\* How many setInterval sources may be live at once.
MaxIntervals == 2
\* How many auto-reset callbacks may be pending at once.
MaxTimeouts == 2
\* Cap of the onComplete / completion counters.
MaxCalls == 3
\* How many interval callbacks of the tick-counting component may run before its
\* next render.
MaxQueuedTicks == 2
\* How far Date.now() moves between two calls made by one handler (ms), and how
\* often it may do so between two Advance steps.
HandlerDelayMs == 1
MaxHandlerDelays == 1

\* The callbacks a caller configures (config.onTick, config.onComplete): both,
\* onComplete alone (what MeditationTimer passes), onTick alone.
BothCallbacks == [onTick |-> TRUE, onComplete |-> TRUE]
Configs ==
  {BothCallbacks, [onTick |-> FALSE, onComplete |-> TRUE],
   [onTick |-> TRUE, onComplete |-> FALSE]}

\* MeditationTimer's initialDuration prop: one minute and the page's 15.
InitialMinutesSet == {1, 15}

\* config.initialMinutes and the setDuration arguments of the range check: the
\* ends of 1..999 and the page's 15; the integers around both clamps.
RangeInitialMinutes == {1, 15, 999}
RangeMinutes == {0 - 1000, 0 - 1, 0, 1, 2, 999, 1000}

\* The configs the engine's behaviours are explored for: both callbacks with
\* autoReset off and on, MeditationTimer's default (onComplete alone, autoReset
\* off) and onTick alone with autoReset on.
Configurations ==
  {[initialMinutes |-> 1, autoReset |-> FALSE, callbacks |-> BothCallbacks],
   [initialMinutes |-> 1, autoReset |-> TRUE, callbacks |-> BothCallbacks],
   [initialMinutes |-> 1, autoReset |-> FALSE,
    callbacks |-> [onTick |-> FALSE, onComplete |-> TRUE]],
   [initialMinutes |-> 1, autoReset |-> TRUE,
    callbacks |-> [onTick |-> TRUE, onComplete |-> FALSE]]}

\* Arguments the host passes to setDuration.
MinutesInputs == {1, 1000}

\* The host's setDuration arguments when only the clamp is exercised:
\* every integer in -NegMinutesInput .. MaxMinutesInput.
NegMinutesInput == 2
MaxMinutesInput == 1001
WideMinutes == (0 - NegMinutesInput)..MaxMinutesInput

\* Session lengths (seconds) whose whole countdown is rendered: every length up
\* to MaxDisplayTotal, one hour, and the longest session.
MaxDisplayTotal == 64

\* The longest text an input event puts into the TimerInput field, and the
\* characters it is made of.
MaxInputLen == 4
InputChars == {"0", "1", "a"}

\* The largest initialMinutes a hook is constructed with.
MaxInitialMinutes == 999
DisplayTotals == 0..MaxDisplayTotal \cup {3600, 59940}

\* ------------------------------------------------------ program constants

\* TimerInput's default props min and max.
MinMinutes == 1
MaxMinutes == 999

IntervalMs == 100
AutoResetDelayMs == 1000
MsPerSecond == 1000
MinDurationSeconds == 60
MaxDurationSeconds == 59940

\* TimerState (src/src/types/timer.ts)
READY == "ready"
RUNNING == "running"
PAUSED == "paused"
COMPLETED == "completed"
TimerState == {READY, RUNNING, PAUSED, COMPLETED}

\* What a call of useTimer throws in the file as it stands: line 19 imports
\* TimerState with `import type`, compiling erases that import, and the
\* initializer useState<TimerState>(TimerState.READY) of line 62 reads an unbound
\* name.
ReferenceError == "ReferenceError"

\* intervalRef.current === null
NoHandle == 0

VARIABLES
  state,            \* useState<TimerState> as last rendered; ReferenceError when
                    \* useTimer threw
  totalDuration,    \* useState: planned length, seconds, as last rendered
  remainingTime,    \* useState: seconds left, as last rendered
  intervalRef,      \* useRef: handle of the interval start() created last, or NoHandle
  startTimeRef,     \* useRef: anchor of the elapsed-time computation (ms)
  pausedTimeRef,    \* useRef: elapsed time banked at pause (ms)
  intervals,        \* live setInterval sources: [id, total, due]
  timeouts,         \* pending auto-reset setTimeout callbacks, oldest first: [total, due]
  autoReset,        \* config.autoReset
  config,           \* which callbacks the caller configured: [onTick, onComplete]
  queued,           \* updates queued by timer callbacks and not yet rendered:
                    \* [state, totalDuration, remainingTime], each <<>> or
                    \* <<the value set last>>
  batched,          \* updates made by the handlers of the event in progress, as
                    \* queued; rendered when the event ends
  closure,          \* the cells [state, totalDuration, remainingTime] of the render
                    \* whose functions the keydown listener holds
  mounted,          \* FALSE once the unmount cleanup has run, and when the
                    \* component never mounted because useTimer threw
  now,              \* Date.now()
  onCompleteCalls,  \* how often config.onComplete was invoked
  completions,      \* how often state changed from RUNNING to COMPLETED
  runningTime,      \* wall-clock ms spent in RUNNING since state last entered READY
  last,             \* the handler, callback or timer-driven render that ran
                    \* last: [op, from, arg]; a tick's arg is the remaining time
                    \* its callback computed
  timerInput,       \* the TimerInput field: [value, inputValue, isFocused], value being
                    \* the parent's duration (minutes) passed as a prop; or NotRendered
  meditationTimer   \* the tick-counting MeditationTimer component:
                    \* [duration, timeLeft, state, intervalRef, queued, completes,
                    \* effectPending]; or NotRendered

vars == <<state, totalDuration, remainingTime, intervalRef, startTimeRef,
          pausedTimeRef, intervals, timeouts, autoReset, config, queued, batched,
          closure, mounted, now, onCompleteCalls, completions, runningTime, last,
          timerInput, meditationTimer>>

\* The two components beside the hook.
components == <<timerInput, meditationTimer>>

Max(a, b) == IF a >= b THEN a ELSE b
Min(a, b) == IF a <= b THEN a ELSE b

\* ---------------------------------------------------------------- helpers

\* No update pending.
NoUpdates == [state |-> <<>>, totalDuration |-> <<>>, remainingTime |-> <<>>]

\* setState(new), setTotalDuration(new) and setRemainingTime(new) with the
\* updates q pending: the update joins q, where the value set last is the one a
\* render commits.  q is `batched` for a call made by a handler of an event and
\* `queued` for a call made by a timer callback.  React drops state updates of
\* an unmounted component.
setState(new, q) == IF mounted THEN [q EXCEPT !.state = <<new>>] ELSE q
setTotalDuration(new, q) == IF mounted THEN [q EXCEPT !.totalDuration = <<new>>] ELSE q
setRemainingTime(new, q) == IF mounted THEN [q EXCEPT !.remainingTime = <<new>>] ELSE q

\* The cells of the committed render.
rendered ==
  [state |-> state, totalDuration |-> totalDuration, remainingTime |-> remainingTime]

\* The renders whose functions a host may call: the committed one (the functions
\* the hook returned last, passed on as onClick props) and the one whose
\* functions the keydown listener holds.
callers == {rendered, closure}

\* The cells c after a render that applies the updates u.
commit(c, u) ==
  [state |-> IF u.state = <<>> THEN c.state ELSE u.state[1],
   totalDuration |-> IF u.totalDuration = <<>> THEN c.totalDuration
                     ELSE u.totalDuration[1],
   remainingTime |-> IF u.remainingTime = <<>> THEN c.remainingTime
                     ELSE u.remainingTime[1]]

\* What the render of an event leaves of the updates q of timer callbacks when
\* it applies the updates b: the render skips q, and the later render that
\* applies q re-applies b after it, so a cell b sets keeps b's value.
skipped(q, b) ==
  [state |-> IF b.state = <<>> THEN q.state ELSE <<>>,
   totalDuration |-> IF b.totalDuration = <<>> THEN q.totalDuration ELSE <<>>,
   remainingTime |-> IF b.remainingTime = <<>> THEN q.remainingTime ELSE <<>>]

\* The cells as the render of everything queued by timer callbacks commits them.
queuedState == commit(rendered, queued).state
queuedRemainingTime == commit(rendered, queued).remainingTime

\* The cells once every pending update is rendered.
settled == commit(commit(rendered, queued), batched)

\* clearInterval(h): the timer queue without source h (a null handle clears nothing).
clearInterval(h) == {iv \in intervals : iv.id # h}

\* clearTimerInterval() cancelling every live interval.
clearTimerInterval_all == {}

\* clearTimerInterval(): the timer queue after `if (intervalRef.current) clearInterval(...)`.
clearTimerInterval == IF intervalRef # NoHandle THEN clearInterval(intervalRef) ELSE intervals

\* A handle for a new setInterval source.  intervalRef only ever holds the handle
\* of a live source or null, so a released handle may be handed out again.
freshHandle == CHOOSE h \in 1..(MaxIntervals + 1) : \A iv \in intervals : iv.id # h

\* The due times of everything in the timer queue.
dueTimes == {iv.due : iv \in intervals} \cup {timeouts[i].due : i \in 1..Len(timeouts)}

\* The host runs a timer callback once its time has come, earliest first, and
\* never inside an event: the render that ends the event comes first.
mayRun(due) == batched = NoUpdates /\ due <= now /\ \A d \in dueTimes : due <= d

\* The interval callback's computation with elapsed time read in minutes.
newRemainingTime_minutes(total, elapsed) == Max(0, total - (elapsed \div (60 * MsPerSecond)))

\* Math.max(0, totalDuration - Math.floor(elapsed / 1000)) of the interval callback.
newRemainingTime(total, elapsed) == Max(0, total - (elapsed \div MsPerSecond))

\* setDuration's computation without the lower clamp.
newDuration_noLowerClamp(minutes) == Min(MaxDurationSeconds, minutes * 60)

\* setDuration's computation without either clamp.
newDuration_unclamped(minutes) == minutes * 60

\* Math.max(60, Math.min(59940, minutes * 60)) of setDuration.
newDuration(minutes) == Max(MinDurationSeconds, Min(MaxDurationSeconds, minutes * 60))

\* Button availability, computed by the render whose state is s.
canStart(s) == s = READY \/ s = PAUSED
canPause(s) == s = RUNNING
canStop(s) == s = RUNNING \/ s = PAUSED
canReset(s) == s # READY

step(op, arg) == [op |-> op, from |-> state, arg |-> arg]

\* The side effects of one handler run, in the order of its statements, for the
\* handler `op` created by the render with cells c (arg: the value an interval
\* callback computed).  clearTimerInterval() calls clearInterval only when
\* intervalRef.current holds a handle; the completing callback calls it
\* unconditionally; onTick and onComplete are invoked only when configured.
effects(op, arg, c) ==
  LET cleared == IF intervalRef # NoHandle THEN <<"clearInterval">> ELSE <<>>
  IN CASE op = "start" ->
            IF c.remainingTime <= 0 THEN <<>>
            ELSE <<"setState", "startTimeRef", "setInterval">>
       [] op = "pause" ->
            IF c.state # RUNNING THEN <<>>
            ELSE cleared \o <<"setState", "pausedTimeRef">>
       [] op \in {"stop", "reset"} ->
            cleared \o <<"setRemainingTime", "setState", "pausedTimeRef">>
       [] op = "setDuration" ->
            IF c.state = RUNNING THEN <<>>
            ELSE <<"setTotalDuration", "setRemainingTime", "setState", "pausedTimeRef">>
       [] op = "tick" ->
            <<"setRemainingTime">>
            \o (IF config.onTick THEN <<"onTick">> ELSE <<>>)
            \o (IF arg <= 0
                  THEN <<"clearInterval", "setState", "pausedTimeRef">>
                       \o (IF config.onComplete THEN <<"onComplete">> ELSE <<>>)
                       \o (IF autoReset THEN <<"setTimeout">> ELSE <<>>)
                  ELSE <<>>)
       [] op = "autoReset" -> <<"setRemainingTime", "setState">>
       [] op = "unmount" -> cleared
       [] OTHER -> <<>>

\* The running time of the session after a step that leaves the engine in newState
\* and during which dt ms of wall-clock time passed.
accrued(newState, dt) ==
  IF newState = READY THEN 0
  ELSE IF state = RUNNING /\ mounted THEN runningTime + dt
  ELSE runningTime

\* ------------------------------------------------ double-precision numbers

\* createTimerDisplay computes progress in JavaScript numbers (IEEE-754 doubles,
\* round to nearest, ties to even).  A double is [neg, m, e]: m holds the 53-bit
\* significand as five limbs, most significant first (the leading bit, then four
\* limbs of 13 bits), and the magnitude is m read as an integer times 2^e; zero
\* has no limbs.
Limb == 2^13

zero == [neg |-> FALSE, m |-> <<>>, e |-> 0]

\* The number of binary digits of n > 0.
bitLength(n) == CHOOSE L \in 1..30 : 2^(L - 1) <= n /\ n < 2^L

\* Long division of the number with the given limbs by d: the quotient's limbs
\* and the remainder.
RECURSIVE longDivide(_, _, _, _)
longDivide(limbs, d, rem, digits) ==
  IF limbs = <<>> THEN [q |-> digits, rem |-> rem]
  ELSE LET cur == rem * Limb + Head(limbs)
       IN longDivide(Tail(limbs), d, cur % d, Append(digits, cur \div d))

\* The significand m + 1 (the leading limb becomes 2 when every bit was set).
RECURSIVE increment(_)
increment(m) ==
  LET front == SubSeq(m, 1, Len(m) - 1)
      low == m[Len(m)]
  IN IF Len(m) = 1 \/ low < Limb - 1 THEN Append(front, low + 1)
     ELSE Append(increment(front), 0)

\* The double nearest to (limbs / d) * 2^e, for five limbs with d <= limbs[1] < 2d.
nearest(neg, limbs, d, e) ==
  LET res == longDivide(limbs, d, 0, <<>>)
      up == \/ 2 * res.rem > d
            \/ (2 * res.rem = d /\ res.q[Len(res.q)] % 2 = 1)
      raised == increment(res.q)
  IN IF ~up THEN [neg |-> neg, m |-> res.q, e |-> e]
     ELSE IF raised[1] = 1 THEN [neg |-> neg, m |-> raised, e |-> e]
     ELSE [neg |-> neg, m |-> <<1, 0, 0, 0, 0>>, e |-> e + 1]

\* a / d in double arithmetic, for integers a and d > 0.
divide(a, d) ==
  LET n == IF a < 0 THEN 0 - a ELSE a
      z == IF n < d THEN CHOOSE k \in 0..30 : d <= n * 2^k /\ n * 2^k < 2 * d
           ELSE CHOOSE k \in 0..30 : d * 2^k <= n /\ n < d * 2^(k + 1)
  IN IF a = 0 THEN zero
     ELSE IF n < d THEN nearest(a < 0, <<n * 2^z, 0, 0, 0, 0>>, d, 0 - z - 52)
     ELSE nearest(a < 0, <<n, 0, 0, 0, 0>>, d * 2^z, z - 52)

\* The double of a small integer.
fromInt(n) == divide(n, 1)

\* The limbs of the exact product m * k, the leading limb unreduced.
RECURSIVE productLimbs(_, _, _)
productLimbs(m, k, carry) ==
  LET t == m[Len(m)] * k + carry
  IN IF Len(m) = 1 THEN <<t>>
     ELSE Append(productLimbs(SubSeq(m, 1, Len(m) - 1), k, t \div Limb), t % Limb)

\* x * k in double arithmetic, for an integer k > 0.
multiply(x, k) ==
  IF x.m = <<>> THEN zero
  ELSE LET p == productLimbs(x.m, k, 0)
           n == bitLength(p[1]) - 1
       IN nearest(x.neg, p, 2^n, x.e + n)

\* x < y for doubles.
RECURSIVE limbsLess(_, _)
limbsLess(a, b) ==
  IF a = <<>> THEN FALSE
  ELSE IF Head(a) # Head(b) THEN Head(a) < Head(b)
  ELSE limbsLess(Tail(a), Tail(b))

magnitudeLess(x, y) ==
  IF y.m = <<>> THEN FALSE
  ELSE IF x.m = <<>> THEN TRUE
  ELSE x.e < y.e \/ (x.e = y.e /\ limbsLess(x.m, y.m))

less(x, y) ==
  IF x.neg /\ ~y.neg THEN x.m # <<>> \/ y.m # <<>>
  ELSE IF ~x.neg /\ y.neg THEN FALSE
  ELSE IF x.neg THEN magnitudeLess(y, x)
  ELSE magnitudeLess(x, y)

\* Math.max(x, y) and Math.min(x, y).
fmax(x, y) == IF less(x, y) THEN y ELSE x
fmin(x, y) == IF less(y, x) THEN y ELSE x

\* ---------------------------------------------------------------- display

\* A string is modelled as the sequence of its characters.
DigitChars == <<"0", "1", "2", "3", "4", "5", "6", "7", "8", "9">>

\* Number.prototype.toString() of an integer n >= 0.
RECURSIVE toString(_)
toString(n) ==
  IF n < 10 THEN <<DigitChars[n + 1]>>
  ELSE Append(toString(n \div 10), DigitChars[(n % 10) + 1])

\* String.prototype.padStart(len, ch).
RECURSIVE padStart(_, _, _)
padStart(str, len, ch) ==
  IF Len(str) >= len THEN str ELSE padStart(<<ch>> \o str, len, ch)

\* formatTime without the hours field.
formatTime_neverHours(totalSeconds) ==
  LET minutes == totalSeconds \div 60
      seconds == totalSeconds % 60
  IN padStart(toString(minutes), 2, "0") \o <<":">>
       \o padStart(toString(seconds), 2, "0")

formatTime(totalSeconds) ==
  LET hours == totalSeconds \div 3600
      minutes == (totalSeconds % 3600) \div 60
      seconds == totalSeconds % 60
  IN IF hours > 0
       THEN padStart(toString(hours), 2, "0") \o <<":">>
              \o padStart(toString(minutes), 2, "0") \o <<":">>
              \o padStart(toString(seconds), 2, "0")
       ELSE padStart(toString(minutes), 2, "0") \o <<":">>
              \o padStart(toString(seconds), 2, "0")

\* createTimerDisplay with the format chosen by the session's total length.
createTimerDisplay_formatByTotal(remainingSeconds, totalSeconds) ==
  LET minutes == remainingSeconds \div 60
      seconds == remainingSeconds % 60
      progress == IF totalSeconds > 0
                    THEN multiply(divide(totalSeconds - remainingSeconds, totalSeconds), 100)
                    ELSE zero
      withHours == padStart(toString(remainingSeconds \div 3600), 2, "0") \o <<":">>
                     \o formatTime_neverHours(remainingSeconds % 3600)
  IN [formatted |-> IF totalSeconds >= 3600 THEN withHours
                    ELSE formatTime(remainingSeconds),
      minutes |-> minutes,
      seconds |-> seconds,
      totalSeconds |-> remainingSeconds,
      progress |-> fmin(fromInt(100), fmax(zero, progress))]

\* createTimerDisplay with progress taken from the remaining share.
createTimerDisplay_remainingShare(remainingSeconds, totalSeconds) ==
  LET minutes == remainingSeconds \div 60
      seconds == remainingSeconds % 60
      progress == IF totalSeconds > 0
                    THEN multiply(divide(remainingSeconds, totalSeconds), 100)
                    ELSE zero
  IN [formatted |-> formatTime(remainingSeconds),
      minutes |-> minutes,
      seconds |-> seconds,
      totalSeconds |-> remainingSeconds,
      progress |-> fmin(fromInt(100), fmax(zero, progress))]

createTimerDisplay(remainingSeconds, totalSeconds) ==
  LET minutes == remainingSeconds \div 60
      seconds == remainingSeconds % 60
      progress == IF totalSeconds > 0
                    THEN multiply(divide(totalSeconds - remainingSeconds, totalSeconds), 100)
                    ELSE zero
  IN [formatted |-> formatTime(remainingSeconds),
      minutes |-> minutes,
      seconds |-> seconds,
      totalSeconds |-> remainingSeconds,
      progress |-> fmin(fromInt(100), fmax(zero, progress))]

\* const display = createTimerDisplay(remainingTime, totalDuration), recomputed
\* on every render.
display == createTimerDisplay(remainingTime, totalDuration)

\* ------------------------------------------------------------ components

\* A component the host does not render.
NotRendered == [rendered |-> FALSE]

\* TimerInput as mounted with the prop `value`: useState(value.toString()) and
\* useState(false).
mountTimerInput(value) ==
  [value |-> value, inputValue |-> toString(value), isFocused |-> FALSE]

\* The tick-counting MeditationTimer as mounted: useState(10), useState(10 * 60),
\* useState('ready'), useRef(null).  queued counts the interval callback's
\* updaters not yet rendered; completes tells that an updater a handler's
\* setTimeLeft has overtaken will still call setState('completed'); effectPending
\* that the `[state]` effect of the last render has not run yet.
mountMeditationTimer ==
  [duration |-> 10, timeLeft |-> 10 * 60, state |-> READY, intervalRef |-> NoHandle,
   queued |-> 0, completes |-> FALSE, effectPending |-> FALSE]

\* ------------------------------------------------------------------- Init

\* useTimer(config) of the file as written: the call throws at line 62 before
\* any state cell or ref exists and returns nothing, so the calling component
\* never mounts, no handler can be invoked and no timer is ever created.  `arg`
\* is what the step record carries.
useTimerThrows(arg) ==
  /\ state = ReferenceError
  /\ totalDuration = 0
  /\ remainingTime = 0
  /\ intervalRef = NoHandle
  /\ startTimeRef = 0
  /\ pausedTimeRef = 0
  /\ intervals = {}
  /\ timeouts = <<>>
  /\ autoReset \in BOOLEAN
  /\ config \in Configs
  /\ queued = NoUpdates
  /\ batched = NoUpdates
  /\ closure = rendered
  /\ mounted = FALSE
  /\ now = Epoch
  /\ onCompleteCalls = 0
  /\ completions = 0
  /\ runningTime = 0
  /\ timerInput = NotRendered
  /\ meditationTimer = NotRendered
  /\ last = [op |-> "init", from |-> ReferenceError, arg |-> arg]

\* useTimer returned: the hook owns its state cells and refs.
constructed == state \in TimerState

\* useTimer({initialMinutes}) returned from its first render: READY with both
\* cells at initialMinutes * 60, the refs at their initial values, nothing
\* scheduled and nothing pending; `arg` is what the step record carries.
useTimerReturns(initialMinutes, arg) ==
  /\ state = READY
  /\ totalDuration = initialMinutes * 60
  /\ remainingTime = initialMinutes * 60
  /\ intervalRef = NoHandle
  /\ startTimeRef = 0
  /\ pausedTimeRef = 0
  /\ intervals = {}
  /\ timeouts = <<>>
  /\ queued = NoUpdates
  /\ batched = NoUpdates
  /\ closure = rendered
  /\ mounted = TRUE
  /\ now = Epoch
  /\ onCompleteCalls = 0
  /\ completions = 0
  /\ runningTime = 0
  /\ last = [op |-> "init", from |-> READY, arg |-> arg]

\* The state after useTimer(config).  First disjunct: the file as written.
\* Second disjunct: the hook with TimerState bound at run time, that is with
\* line 19 importing the enum as a value the way TimerControls.tsx:20 does; the
\* commands and callbacks below exist in that build only.
Init ==
  \/ useTimerThrows(0)
  \/ /\ \E c \in Configurations :
          /\ useTimerReturns(c.initialMinutes, 0)
          /\ autoReset = c.autoReset
          /\ config = c.callbacks
     /\ timerInput = NotRendered
     /\ meditationTimer = NotRendered

\* --------------------------------------------------------------- commands

\* A command runs in a discrete event (click, keydown).  It is the function some
\* render created and tests the state and remainingTime of that render, c; it
\* writes the refs and the timer queue at once and batches its state updates,
\* which React renders when the event ends (eventRender below).

start(c) ==
  /\ mounted
  /\ last' = step("start", 0)
  /\ IF c.remainingTime <= 0
       THEN UNCHANGED <<batched, startTimeRef, intervalRef, intervals>>
       ELSE /\ Cardinality(intervals) < MaxIntervals
            /\ batched' = setState(RUNNING, batched)
            /\ startTimeRef' = now - pausedTimeRef
            /\ intervalRef' = freshHandle
            /\ intervals' = intervals \cup
                 {[id |-> freshHandle, total |-> c.totalDuration, due |-> now + IntervalMs]}
  /\ UNCHANGED <<state, totalDuration, remainingTime, queued, closure, pausedTimeRef,
                 timeouts, autoReset, config, mounted, now, onCompleteCalls,
                 completions>>
  /\ UNCHANGED components
  /\ runningTime' = accrued(state', 0)

pause(c) ==
  /\ mounted
  /\ last' = step("pause", 0)
  /\ IF c.state # RUNNING
       THEN UNCHANGED <<batched, intervalRef, intervals, pausedTimeRef>>
       ELSE /\ intervals' = clearTimerInterval
            /\ intervalRef' = NoHandle
            /\ batched' = setState(PAUSED, batched)
            /\ pausedTimeRef' = now - startTimeRef
  /\ UNCHANGED <<state, totalDuration, remainingTime, queued, closure, startTimeRef,
                 timeouts, autoReset, config, mounted, now, onCompleteCalls,
                 completions>>
  /\ UNCHANGED components
  /\ runningTime' = accrued(state', 0)

stop(c) ==
  /\ mounted
  /\ last' = step("stop", 0)
  /\ intervals' = clearTimerInterval
  /\ intervalRef' = NoHandle
  /\ batched' = setState(READY, setRemainingTime(c.totalDuration, batched))
  /\ pausedTimeRef' = 0
  /\ UNCHANGED <<state, totalDuration, remainingTime, queued, closure, startTimeRef,
                 timeouts, autoReset, config, mounted, now, onCompleteCalls,
                 completions>>
  /\ UNCHANGED components
  /\ runningTime' = accrued(state', 0)

reset(c) ==
  /\ mounted
  /\ last' = step("reset", 0)
  /\ intervals' = clearTimerInterval
  /\ intervalRef' = NoHandle
  /\ batched' = setState(READY, setRemainingTime(c.totalDuration, batched))
  /\ pausedTimeRef' = 0
  /\ UNCHANGED <<state, totalDuration, remainingTime, queued, closure, startTimeRef,
                 timeouts, autoReset, config, mounted, now, onCompleteCalls,
                 completions>>
  /\ UNCHANGED components
  /\ runningTime' = accrued(state', 0)

setDuration(c, minutes) ==
  /\ mounted
  /\ last' = step("setDuration", minutes)
  /\ IF c.state = RUNNING
       THEN UNCHANGED <<batched, pausedTimeRef>>
       ELSE /\ batched' =
                 setState(READY,
                   setRemainingTime(newDuration(minutes),
                     setTotalDuration(newDuration(minutes), batched)))
            /\ pausedTimeRef' = 0
  /\ UNCHANGED <<state, totalDuration, remainingTime, queued, closure, intervalRef,
                 startTimeRef, intervals, timeouts, autoReset, config, mounted, now,
                 onCompleteCalls, completions>>
  /\ UNCHANGED components
  /\ runningTime' = accrued(state', 0)

\* The render that ends an event: React renders the batched updates
\* synchronously, skipping what timer callbacks queued, and runs the passive
\* effects of this commit at once, so the keydown listener holds the functions
\* of this render.  The step record stays that of the event's handler.
eventRender ==
  /\ mounted
  /\ batched # NoUpdates
  /\ state' = commit(rendered, batched).state
  /\ totalDuration' = commit(rendered, batched).totalDuration
  /\ remainingTime' = commit(rendered, batched).remainingTime
  /\ closure' = commit(rendered, batched)
  /\ queued' = skipped(queued, batched)
  /\ batched' = NoUpdates
  /\ UNCHANGED <<intervalRef, startTimeRef, pausedTimeRef, intervals, timeouts,
                 autoReset, config, mounted, now, onCompleteCalls, completions, last>>
  /\ UNCHANGED components
  /\ runningTime' = accrued(state', 0)

\* Date.now() moves on while a handler that has called a command is still
\* running.
handlerDelay ==
  /\ mounted
  /\ batched # NoUpdates
  /\ (now - Epoch) % ClockStep < MaxHandlerDelays * HandlerDelayMs
  /\ now' = now + HandlerDelayMs
  /\ UNCHANGED <<state, totalDuration, remainingTime, queued, batched, closure,
                 intervalRef, startTimeRef, pausedTimeRef, intervals, timeouts,
                 autoReset, config, mounted, onCompleteCalls, completions, last>>
  /\ UNCHANGED components
  /\ runningTime' = accrued(state', HandlerDelayMs)

\* -------------------------------------------------------- timer callbacks

\* A timer callback runs in a task of its own.  Its setState and
\* setRemainingTime calls only queue the update; the refs, the timer queue and
\* the config callbacks are touched at once.  The render that commits what is
\* queued is a later task (render below), and an event may be handled in between.

\* One run of the interval callback of source iv.
tick(iv) ==
  LET elapsed == now - startTimeRef
      newRemaining == newRemainingTime(iv.total, elapsed)
      rearmed == (intervals \ {iv}) \cup {[iv EXCEPT !.due = now + IntervalMs]}
  IN
  /\ iv \in intervals
  /\ mayRun(iv.due)
  /\ last' = step("tick", newRemaining)
  /\ IF newRemaining <= 0
       THEN /\ config.onComplete => onCompleteCalls < MaxCalls
            /\ autoReset => Len(timeouts) < MaxTimeouts
            /\ queued' = setState(COMPLETED, setRemainingTime(newRemaining, queued))
            /\ intervals' = {x \in rearmed : x.id # intervalRef}
            /\ intervalRef' = NoHandle
            /\ pausedTimeRef' = 0
            /\ onCompleteCalls' = IF config.onComplete
                                    THEN onCompleteCalls + 1 ELSE onCompleteCalls
            /\ timeouts' = IF autoReset
                             THEN Append(timeouts, [total |-> iv.total,
                                                    due |-> now + AutoResetDelayMs])
                             ELSE timeouts
       ELSE /\ queued' = setRemainingTime(newRemaining, queued)
            /\ intervals' = rearmed
            /\ UNCHANGED <<intervalRef, pausedTimeRef, onCompleteCalls, timeouts>>
  /\ UNCHANGED <<state, remainingTime, totalDuration, batched, closure, startTimeRef,
                 autoReset, config, mounted, now, completions>>
  /\ UNCHANGED components
  /\ runningTime' = accrued(state', 0)

\* One run of the auto-reset callback scheduled at completion; the step records
\* the totalDuration the callback closed over.
autoResetTimeout ==
  /\ timeouts # <<>>
  /\ mayRun(Head(timeouts).due)
  /\ last' = step("autoReset", Head(timeouts).total)
  /\ timeouts' = Tail(timeouts)
  /\ queued' = setState(READY, setRemainingTime(Head(timeouts).total, queued))
  /\ UNCHANGED <<state, remainingTime, totalDuration, batched, closure, intervalRef,
                 startTimeRef, pausedTimeRef, intervals, autoReset, config, mounted,
                 now, onCompleteCalls, completions>>
  /\ UNCHANGED components
  /\ runningTime' = accrued(state', 0)

\* The render React schedules for the updates timer callbacks queued: it commits
\* the last value queued for each cell.  Its passive effects run in a later
\* task (those of the render before it run no later than this render starts),
\* so the keydown listener is left with the functions of the render before.
render ==
  /\ mounted
  /\ queued # NoUpdates
  /\ batched = NoUpdates
  /\ last' = step("render", 0)
  /\ state' = queuedState
  /\ remainingTime' = queuedRemainingTime
  /\ queued' = NoUpdates
  /\ closure' = rendered
  /\ completions' = IF state = RUNNING /\ queuedState = COMPLETED
                      THEN completions + 1 ELSE completions
  /\ UNCHANGED <<totalDuration, batched, intervalRef, startTimeRef, pausedTimeRef,
                 intervals, timeouts, autoReset, config, mounted, now,
                 onCompleteCalls>>
  /\ UNCHANGED components
  /\ runningTime' = accrued(state', 0)

\* The passive effects of a timer-driven render: MeditationTimer's keydown effect
\* (deps [timer]) removes the listener and attaches one that holds the functions
\* of the committed render.
passiveEffects ==
  /\ mounted
  /\ batched = NoUpdates
  /\ closure # rendered
  /\ last' = step("passiveEffects", 0)
  /\ closure' = rendered
  /\ UNCHANGED <<state, totalDuration, remainingTime, queued, batched, intervalRef,
                 startTimeRef, pausedTimeRef, intervals, timeouts, autoReset, config,
                 mounted, now, onCompleteCalls, completions>>
  /\ UNCHANGED components
  /\ runningTime' = accrued(state', 0)

\* The cleanup of the unmount effect; what is still queued is never rendered.
unmount ==
  /\ mounted
  /\ batched = NoUpdates
  /\ last' = step("unmount", 0)
  /\ intervals' = clearTimerInterval
  /\ intervalRef' = NoHandle
  /\ mounted' = FALSE
  /\ queued' = NoUpdates
  /\ UNCHANGED <<state, totalDuration, remainingTime, batched, closure, startTimeRef,
                 pausedTimeRef, timeouts, autoReset, config, now, onCompleteCalls,
                 completions>>
  /\ UNCHANGED components
  /\ runningTime' = accrued(state', 0)

\* Wall-clock time passes.  The renders and passive effects React has scheduled
\* are the next tasks of their kind, so they run before the clock has moved on
\* by ClockStep.
advance ==
  /\ now + ClockStep <= Epoch + MaxAdvances * ClockStep
  /\ queued = NoUpdates
  /\ batched = NoUpdates
  /\ mounted => closure = rendered
  /\ now' = now + ClockStep
  /\ last' = step("advance", 0)
  /\ UNCHANGED <<state, totalDuration, remainingTime, queued, batched, closure,
                 intervalRef, startTimeRef, pausedTimeRef, intervals, timeouts,
                 autoReset, config, mounted, onCompleteCalls, completions>>
  /\ UNCHANGED components
  /\ runningTime' = accrued(state', ClockStep)

\* A host that handles one command per event, calling the functions of any
\* render it may hold.
Next ==
  \/ (batched = NoUpdates /\ \E c \in callers : start(c))
  \/ (batched = NoUpdates /\ \E c \in callers : pause(c))
  \/ (batched = NoUpdates /\ \E c \in callers : stop(c))
  \/ (batched = NoUpdates /\ \E c \in callers : reset(c))
  \/ (batched = NoUpdates
        /\ \E c \in callers, minutes \in MinutesInputs : setDuration(c, minutes))
  \/ eventRender
  \/ \E iv \in intervals : tick(iv)
  \/ autoResetTimeout
  \/ render
  \/ passiveEffects
  \/ unmount
  \/ advance

Spec == Init /\ [][Next]_vars

\* A host whose handlers may call pause, stop or reset a second time before the
\* event ends, Date.now() moving on between the calls.
NextBusy ==
  \/ (batched = NoUpdates /\ \E c \in callers : start(c))
  \/ ((batched = NoUpdates \/ last.op = "pause") /\ \E c \in callers : pause(c))
  \/ ((batched = NoUpdates \/ last.op = "stop") /\ \E c \in callers : stop(c))
  \/ ((batched = NoUpdates \/ last.op = "reset") /\ \E c \in callers : reset(c))
  \/ handlerDelay
  \/ eventRender
  \/ \E iv \in intervals : tick(iv)
  \/ autoResetTimeout
  \/ render
  \/ passiveEffects
  \/ advance

BusySpec == Init /\ [][NextBusy]_vars

\* An undisturbed host: sessions start from READY only and nothing pauses, stops,
\* resets, re-sizes or unmounts them; React renders an event's updates, the
\* event loop runs an interval callback that is due and React runs the render it
\* has scheduled (weak fairness of the three).
NextLive ==
  \/ (state = READY /\ batched = NoUpdates /\ start(rendered))
  \/ eventRender
  \/ \E iv \in intervals : tick(iv)
  \/ autoResetTimeout
  \/ render
  \/ passiveEffects
  \/ advance

LiveSpec ==
  /\ Init
  /\ [][NextLive]_vars
  /\ WF_vars(eventRender)
  /\ WF_vars(\E iv \in intervals : tick(iv))
  /\ WF_vars(render)

\* A host that only sets the duration, with any integer argument; no callback
\* ever runs, so one configuration stands for all.
DurationInit ==
  \/ useTimerThrows(0)
  \/ /\ \E c \in Configurations :
          /\ ~c.autoReset
          /\ c.callbacks = BothCallbacks
          /\ useTimerReturns(c.initialMinutes, 0)
          /\ autoReset = c.autoReset
          /\ config = c.callbacks
     /\ timerInput = NotRendered
     /\ meditationTimer = NotRendered

NextDuration ==
  \/ (batched = NoUpdates /\ \E minutes \in WideMinutes : setDuration(rendered, minutes))
  \/ eventRender

DurationSpec == DurationInit /\ [][NextDuration]_vars

\* Engines constructed with the initialMinutes of RangeInitialMinutes (first
\* disjunct: the file as written) and driven by every command from every
\* state, setDuration taking the arguments of RangeMinutes; start() is called
\* while no interval is live, so that no interval is left behind.
RangeInit ==
  \/ useTimerThrows(0)
  \/ /\ \E m \in RangeInitialMinutes : useTimerReturns(m, m)
     /\ autoReset = TRUE
     /\ config = BothCallbacks
     /\ timerInput = NotRendered
     /\ meditationTimer = NotRendered

NextRange ==
  \/ (batched = NoUpdates /\ intervals = {} /\ \E c \in callers : start(c))
  \/ (batched = NoUpdates /\ \E c \in callers : pause(c))
  \/ (batched = NoUpdates /\ \E c \in callers : stop(c))
  \/ (batched = NoUpdates /\ \E c \in callers : reset(c))
  \/ (batched = NoUpdates
        /\ \E c \in callers, minutes \in RangeMinutes : setDuration(c, minutes))
  \/ eventRender
  \/ \E iv \in intervals : tick(iv)
  \/ autoResetTimeout
  \/ render
  \/ passiveEffects
  \/ unmount
  \/ advance

RangeSpec == RangeInit /\ [][NextRange]_vars

\* A host whose user issues no command once a session has completed: none while
\* a callback's state update waits for its render, none while COMPLETED, and
\* none after the first RUNNING->COMPLETED change; the timer callbacks and the
\* renders run throughout.
NextQuiet ==
  \/ (completions = 0 /\ queued.state = <<>> /\ state # COMPLETED
        /\ batched = NoUpdates
        /\ \E c \in callers :
             \/ start(c) \/ pause(c) \/ stop(c) \/ reset(c)
             \/ \E minutes \in MinutesInputs : setDuration(c, minutes))
  \/ eventRender
  \/ \E iv \in intervals : tick(iv)
  \/ autoResetTimeout
  \/ render
  \/ passiveEffects
  \/ advance

QuietSpec == Init /\ [][NextQuiet]_vars

\* A host that invokes each command only while the capability guard of the
\* render it holds is true: the buttons TimerControls renders, whose onClick
\* props are those of the committed render, the keydown listener, and the
\* TimerInput, which is rendered in READY only; callbacks, renders and teardown
\* as in Spec.
NextGuarded ==
  \/ (batched = NoUpdates /\ \E c \in callers : canStart(c.state) /\ start(c))
  \/ (batched = NoUpdates /\ \E c \in callers : canPause(c.state) /\ pause(c))
  \/ (batched = NoUpdates /\ \E c \in callers : canStop(c.state) /\ stop(c))
  \/ (batched = NoUpdates /\ \E c \in callers : canReset(c.state) /\ reset(c))
  \/ (batched = NoUpdates /\ state = READY
        /\ \E minutes \in MinutesInputs : setDuration(rendered, minutes))
  \/ eventRender
  \/ \E iv \in intervals : tick(iv)
  \/ autoResetTimeout
  \/ render
  \/ passiveEffects
  \/ unmount
  \/ advance

GuardedSpec == Init /\ [][NextGuarded]_vars

\* -------------------------------------------------------------- TimerInput

\* The texts an input event may carry.
InputTexts == UNION {[1..n -> InputChars] : n \in 0..MaxInputLen}

\* /^\d+$/.test(str)
isDigits(str) == str # <<>> /\ \A i \in 1..Len(str) : \E d \in 1..10 : DigitChars[d] = str[i]

\* parseInt(str, 10) of a string of digits.
RECURSIVE parseInt(_)
parseInt(str) ==
  IF str = <<>> THEN 0
  ELSE parseInt(SubSeq(str, 1, Len(str) - 1)) * 10
         + ((CHOOSE d \in 1..10 : DigitChars[d] = str[Len(str)]) - 1)

\* The step record's arg when a handler run made no onChange call.
NoCall == 0 - 1

\* The hook's part of the parent's handleDurationChange(minutes):
\* timer.setDuration(minutes), a function of the committed render, together with
\* the render that ends the input event.
timerSetDuration(minutes) ==
  IF state = RUNNING
    THEN UNCHANGED <<totalDuration, remainingTime, state, pausedTimeRef>>
    ELSE /\ totalDuration' = newDuration(minutes)
         /\ remainingTime' = newDuration(minutes)
         /\ state' = READY
         /\ pausedTimeRef' = 0

\* One input event of the TimerInput with the render that ends it: the handler
\* leaves the field as `field` and calls onChange(reported) unless reported is
\* NoCall; onChange is the parent's handleDurationChange, which stores the
\* duration (passed back as the prop `value`) and calls timer.setDuration.
inputStep(op, field, reported) ==
  /\ mounted
  /\ timerInput # NotRendered
  /\ batched = NoUpdates
  /\ last' = step(op, reported)
  /\ IF reported = NoCall
       THEN /\ timerInput' = field
            /\ UNCHANGED <<totalDuration, remainingTime, state, pausedTimeRef>>
       ELSE /\ timerInput' = [field EXCEPT !.value = reported]
            /\ timerSetDuration(reported)
  /\ closure' = [state |-> state', totalDuration |-> totalDuration',
                 remainingTime |-> remainingTime']
  /\ UNCHANGED <<queued, batched, intervalRef, startTimeRef, intervals, timeouts,
                 autoReset, config, mounted, now, onCompleteCalls, completions,
                 meditationTimer>>
  /\ runningTime' = accrued(state', 0)

\* handleInputChange reporting every number typed.
handleInputChange_unvalidated(newValue) ==
  IF newValue = <<>>
    THEN inputStep("change", [timerInput EXCEPT !.inputValue = <<>>], NoCall)
  ELSE IF ~isDigits(newValue)
    THEN inputStep("change", timerInput, NoCall)
  ELSE inputStep("change", [timerInput EXCEPT !.inputValue = newValue],
                 parseInt(newValue))

handleInputChange(newValue) ==
  IF newValue = <<>>
    THEN inputStep("change", [timerInput EXCEPT !.inputValue = <<>>], NoCall)
  ELSE IF ~isDigits(newValue)
    THEN inputStep("change", timerInput, NoCall)
  ELSE LET numValue == parseInt(newValue)
       IN inputStep("change", [timerInput EXCEPT !.inputValue = newValue],
                    IF numValue >= MinMinutes /\ numValue <= MaxMinutes
                      THEN numValue ELSE NoCall)

handleBlur ==
  LET inputValue == timerInput.inputValue
      blurred == [timerInput EXCEPT !.isFocused = FALSE]
      numValue == parseInt(inputValue)
  IN /\ timerInput # NotRendered
     /\ IF inputValue = <<>> \/ ~isDigits(inputValue)
          THEN inputStep("blur", [blurred EXCEPT !.inputValue = toString(timerInput.value)],
                         NoCall)
        ELSE IF numValue < MinMinutes
          THEN inputStep("blur", [blurred EXCEPT !.inputValue = toString(MinMinutes)],
                         MinMinutes)
        ELSE IF numValue > MaxMinutes
          THEN inputStep("blur", [blurred EXCEPT !.inputValue = toString(MaxMinutes)],
                         MaxMinutes)
        ELSE inputStep("blur", blurred, NoCall)

handleFocus == inputStep("focus", [timerInput EXCEPT !.isFocused = TRUE], NoCall)

\* The MeditationTimer component after its first render.  First disjunct: the
\* file as written, where useTimer (MeditationTimer.tsx:63) throws and nothing is
\* rendered.  Second: the hook with TimerState bound at run time, called with
\* {initialMinutes: duration, autoReset, onComplete} (no onTick), the component
\* in READY and its TimerInput mounted with the parent's duration.
InputInit ==
  \/ useTimerThrows(NoCall)
  \/ /\ \E m \in InitialMinutesSet :
          /\ useTimerReturns(m, NoCall)
          /\ timerInput = mountTimerInput(m)
     /\ autoReset \in BOOLEAN
     /\ config = [onTick |-> FALSE, onComplete |-> TRUE]
     /\ meditationTimer = NotRendered

\* A user editing the duration field.
NextInput ==
  \/ \E newValue \in InputTexts : handleInputChange(newValue)
  \/ handleBlur
  \/ handleFocus

InputSpec == InputInit /\ [][NextInput]_vars

\* ------------------------------------------- tick-counting MeditationTimer

\* What parseInt(e.target.value) yields for the duration input: <<>> is NaN,
\* <<n>> the integer n.
ParsedDurations == {<<>>, <<0 - 1>>, <<0>>, <<1>>, <<2>>, <<999>>, <<1000>>}

\* parsed || 1
orOne(parsed) == IF parsed = <<>> \/ parsed[1] = 0 THEN 1 ELSE parsed[1]

\* The handle of the component's one setInterval.
CountdownHandle == 1

\* The `[state]` effect after a render with newState: an interval runs exactly
\* while the state is 'running'.
countdownEffect(newState) == IF newState = RUNNING THEN CountdownHandle ELSE NoHandle

\* The render of k queued setTimeLeft(prev => ...) updates on timeLeft prev: the
\* updater `if (prev <= 1) { setState('completed'); return 0 } return prev - 1`
\* run k times; completed tells whether a run called setState('completed').
RECURSIVE applyUpdaters(_, _)
applyUpdaters(prev, k) ==
  IF k = 0 THEN [timeLeft |-> prev, completed |-> FALSE]
  ELSE IF prev <= 1 THEN [timeLeft |-> 0, completed |-> TRUE]
  ELSE applyUpdaters(prev - 1, k - 1)

\* A click or input event of the component with the render that ends it and the
\* passive effects of that render, which React runs at once; the hook and the
\* TimerInput are not part of this component.
\*   timeLeft: <<>>, or <<v>> when the handler called setTimeLeft(v);
\*   newState: the state the handler set (the current one if it set none).
\* The render skips the updaters the interval callback queued.  They stay queued
\* (field queued) unless the handler set timeLeft: then the later render runs
\* them only to apply the handler's value after them, and all that is left of
\* them is the setState('completed') one of them may make (field completes).
widgetStep(op, arg, duration, timeLeft, newState) ==
  LET w == meditationTimer
  IN /\ w # NotRendered
     /\ last' = [op |-> op, from |-> w.state, arg |-> arg]
     /\ meditationTimer' =
          [duration |-> duration,
           timeLeft |-> IF timeLeft = <<>> THEN w.timeLeft ELSE timeLeft[1],
           state |-> newState,
           intervalRef |-> countdownEffect(newState),
           queued |-> IF timeLeft = <<>> THEN w.queued ELSE 0,
           completes |-> IF timeLeft = <<>> THEN w.completes
                         ELSE w.completes \/ applyUpdaters(w.timeLeft, w.queued).completed,
           effectPending |-> FALSE]
     /\ UNCHANGED <<state, totalDuration, remainingTime, intervalRef, startTimeRef,
                    pausedTimeRef, intervals, timeouts, autoReset, config, queued,
                    batched, closure, mounted, now, onCompleteCalls, completions,
                    runningTime, timerInput>>

\* The duration input's onChange; the input is disabled unless 'ready'.
handleDurationChange(parsed) ==
  LET minutes == orOne(parsed)
      w == meditationTimer
  IN /\ w.state = READY
     /\ IF minutes < 1 \/ minutes > 999
          THEN widgetStep("handleDurationChange", minutes, w.duration, <<>>, w.state)
          ELSE widgetStep("handleDurationChange", minutes, minutes,
                          IF w.state = READY THEN <<minutes * 60>> ELSE <<>>,
                          w.state)

\* Start is rendered in 'ready'.
handleStart ==
  /\ meditationTimer.state = READY
  /\ widgetStep("handleStart", 0, meditationTimer.duration, <<>>, RUNNING)

\* Pause is rendered in 'running'.
handlePause ==
  /\ meditationTimer.state = RUNNING
  /\ widgetStep("handlePause", 0, meditationTimer.duration, <<>>, PAUSED)

\* Resume is rendered in 'paused'.
handleResume ==
  /\ meditationTimer.state = PAUSED
  /\ widgetStep("handleResume", 0, meditationTimer.duration, <<>>, RUNNING)

\* Stop is rendered in 'running' and 'paused'.
handleStop ==
  /\ meditationTimer.state \in {RUNNING, PAUSED}
  /\ widgetStep("handleStop", 0, meditationTimer.duration,
                <<meditationTimer.duration * 60>>, READY)

\* New Session is rendered in 'completed'.
handleReset ==
  /\ meditationTimer.state = COMPLETED
  /\ widgetStep("handleReset", 0, meditationTimer.duration,
                <<meditationTimer.duration * 60>>, READY)

\* One run of the interval callback, in whatever state the component is while
\* the interval is live: setTimeLeft(prev => ...) queues the updater; the updater
\* runs when React renders it.
countdown ==
  /\ meditationTimer # NotRendered
  /\ meditationTimer.intervalRef # NoHandle
  /\ meditationTimer.queued < MaxQueuedTicks
  /\ last' = [op |-> "countdown", from |-> meditationTimer.state, arg |-> 0]
  /\ meditationTimer' = [meditationTimer EXCEPT !.queued = @ + 1]
  /\ UNCHANGED <<state, totalDuration, remainingTime, intervalRef, startTimeRef,
                 pausedTimeRef, intervals, timeouts, autoReset, config, queued,
                 batched, closure, mounted, now, onCompleteCalls, completions,
                 runningTime, timerInput>>

\* The render React schedules for the interval callback's updates, in a task of
\* its own: it runs the queued updaters on the committed timeLeft, and a
\* setState('completed') made by an updater is applied last.  The passive
\* effects of the render before it run no later than this render starts; those
\* of this render, the `[state]` effect when the state changed, run in a later
\* task (flushCountdownEffect).  The step records the timeLeft the updaters
\* started from.
countdownRender ==
  LET w == meditationTimer
      counted == applyUpdaters(w.timeLeft, w.queued)
      newState == IF w.completes \/ counted.completed THEN COMPLETED ELSE w.state
  IN /\ w # NotRendered
     /\ w.queued > 0 \/ w.completes
     /\ last' = [op |-> "render", from |-> w.state, arg |-> w.timeLeft]
     /\ meditationTimer' =
          [duration |-> w.duration,
           timeLeft |-> counted.timeLeft,
           state |-> newState,
           intervalRef |-> IF w.effectPending THEN countdownEffect(w.state)
                           ELSE w.intervalRef,
           queued |-> 0,
           completes |-> FALSE,
           effectPending |-> newState # w.state]
     /\ UNCHANGED <<state, totalDuration, remainingTime, intervalRef, startTimeRef,
                    pausedTimeRef, intervals, timeouts, autoReset, config, queued,
                    batched, closure, mounted, now, onCompleteCalls, completions,
                    runningTime, timerInput>>

\* The passive effects of a timer-driven render that changed the state: the
\* `[state]` effect clears the interval.
flushCountdownEffect ==
  /\ meditationTimer # NotRendered
  /\ meditationTimer.effectPending
  /\ last' = [op |-> "effect", from |-> meditationTimer.state, arg |-> 0]
  /\ meditationTimer' =
       [meditationTimer EXCEPT !.intervalRef = countdownEffect(meditationTimer.state),
                               !.effectPending = FALSE]
  /\ UNCHANGED <<state, totalDuration, remainingTime, intervalRef, startTimeRef,
                 pausedTimeRef, intervals, timeouts, autoReset, config, queued,
                 batched, closure, mounted, now, onCompleteCalls, completions,
                 runningTime, timerInput>>

\* The component as mounted; no useTimer hook and no TimerInput beside it.
WidgetInit ==
  /\ useTimerReturns(1, 0)
  /\ autoReset = FALSE
  /\ config = BothCallbacks
  /\ timerInput = NotRendered
  /\ meditationTimer = mountMeditationTimer

\* The component driven through its rendered controls.
NextWidget ==
  \/ \E parsed \in ParsedDurations : handleDurationChange(parsed)
  \/ handleStart
  \/ handlePause
  \/ handleResume
  \/ handleStop
  \/ handleReset
  \/ countdown
  \/ countdownRender
  \/ flushCountdownEffect

WidgetSpec == WidgetInit /\ [][NextWidget]_vars

\* ---------------------------------------------------------------- keyboard

\* event.code values the host's keydown listener may receive.
KeyCodes == {"Space", "Escape", "KeyR", "KeyA"}

\* The command handleKeyPress issues for a keydown with the given event.code,
\* targetIsInput being `event.target instanceof HTMLInputElement`; the guards
\* are those of the render whose `timer` the listener holds, c being its cells.
keyCommand(c, code, targetIsInput) ==
  IF targetIsInput THEN "none"
  ELSE CASE code = "Space" -> IF canStart(c.state) THEN "start"
                              ELSE IF canPause(c.state) THEN "pause"
                              ELSE "none"
         [] code = "Escape" -> IF canStop(c.state) THEN "stop" ELSE "none"
         [] code = "KeyR" -> IF canReset(c.state) THEN "reset" ELSE "none"
         [] OTHER -> "none"

\* A keydown for which the listener calls nothing.
keydownIgnored ==
  /\ mounted
  /\ last' = step("keydown", 0)
  /\ UNCHANGED <<state, totalDuration, remainingTime, intervalRef, startTimeRef,
                 pausedTimeRef, intervals, timeouts, autoReset, config, queued,
                 batched, closure, mounted, now, onCompleteCalls, completions,
                 runningTime, components>>

\* handleKeyPress of the MeditationTimer component: the listener attached by the
\* passive effects that ran last, calling the functions of that render.
handleKeyPress(code, targetIsInput) ==
  LET command == keyCommand(closure, code, targetIsInput)
  IN CASE command = "start" -> start(closure)
       [] command = "pause" -> pause(closure)
       [] command = "stop" -> stop(closure)
       [] command = "reset" -> reset(closure)
       [] OTHER -> keydownIgnored

\* A host driven by the keyboard alone, one key per event; callbacks, renders
\* and passive effects as in Spec.
NextKeyboard ==
  \/ (batched = NoUpdates
        /\ \E code \in KeyCodes, targetIsInput \in BOOLEAN :
             handleKeyPress(code, targetIsInput))
  \/ eventRender
  \/ \E iv \in intervals : tick(iv)
  \/ autoResetTimeout
  \/ render
  \/ passiveEffects
  \/ advance

KeyboardSpec == Init /\ [][NextKeyboard]_vars

\* The display over a countdown: a hook constructed with a session length of
\* DisplayTotals is started once and left to count down, so that it renders
\* with each remainingTime from totalDuration down to 0.  First disjunct: the file as written, where the hook
\* throws before its first createTimerDisplay call; second: the hook with
\* TimerState bound at run time.
DisplayInit ==
  \/ useTimerThrows(0)
  \/ /\ state = READY
     /\ totalDuration \in DisplayTotals
     /\ remainingTime = totalDuration
     /\ intervalRef = NoHandle
     /\ startTimeRef = 0
     /\ pausedTimeRef = 0
     /\ intervals = {}
     /\ timeouts = <<>>
     /\ autoReset = FALSE
     /\ config = BothCallbacks
     /\ queued = NoUpdates
     /\ batched = NoUpdates
     /\ closure = rendered
     /\ mounted = TRUE
     /\ now = Epoch
     /\ onCompleteCalls = 0
     /\ completions = 0
     /\ runningTime = 0
     /\ timerInput = NotRendered
     /\ meditationTimer = NotRendered
     /\ last = [op |-> "init", from |-> READY, arg |-> 0]

\* Date.now() moves on by one second while a countdown runs: the interval
\* callback that was due has run, and so has what React scheduled after it (the
\* render of its update and the passive effects of that render).
secondPasses ==
  /\ intervals # {}
  /\ \A iv \in intervals : now < iv.due
  /\ queued = NoUpdates
  /\ batched = NoUpdates
  /\ closure = rendered
  /\ now' = now + MsPerSecond
  /\ last' = step("advance", 0)
  /\ UNCHANGED <<state, totalDuration, remainingTime, queued, batched, closure,
                 intervalRef, startTimeRef, pausedTimeRef, intervals, timeouts,
                 autoReset, config, mounted, onCompleteCalls, completions>>
  /\ UNCHANGED components
  /\ runningTime' = accrued(state', MsPerSecond)

\* A host that starts the session once and then only watches it.
NextDisplay ==
  \/ (last.op = "init" /\ start(rendered))
  \/ eventRender
  \/ secondPasses
  \/ \E iv \in intervals : tick(iv)
  \/ render
  \/ passiveEffects

DisplaySpec == DisplayInit /\ [][NextDisplay]_vars

\* useTimer(config) for every config.initialMinutes of 1..MaxInitialMinutes; the
\* step record of the construction carries initialMinutes.  First disjunct: the
\* file as written; second: the hook with TimerState bound at run time.
ConstructInit ==
  \/ \E m \in 1..MaxInitialMinutes : useTimerThrows(m)
  \/ /\ \E m \in 1..MaxInitialMinutes : useTimerReturns(m, m)
     /\ autoReset \in BOOLEAN
     /\ config \in Configs
     /\ timerInput = NotRendered
     /\ meditationTimer = NotRendered

\* Construction followed by the first commands of a session.
NextConstruct ==
  \/ (batched = NoUpdates /\ start(rendered))
  \/ (batched = NoUpdates /\ pause(rendered))
  \/ eventRender

ConstructSpec == ConstructInit /\ [][NextConstruct]_vars

\* ----------------------------------------------------------------- claims

\* C1: in every reachable state 0 <= remainingSeconds <= totalDurationSeconds.
C1_RemainingWithinTotal == 0 <= remainingTime /\ remainingTime <= totalDuration

\* C2: at most one periodic timing source (setInterval) is live at any instant.
C2_AtMostOneInterval == Cardinality(intervals) <= 1

\* C3: a periodic timing source is live only while state == RUNNING: in READY,
\* PAUSED and COMPLETED no interval exists (read between events: a start() has
\* created its interval before the render of its event commits RUNNING).
C3_IntervalOnlyWhileRunning ==
  (state # RUNNING /\ batched = NoUpdates) => intervals = {}

\* C4: state == READY implies remainingSeconds == totalDurationSeconds.
C4_ReadyHasFullTime == state = READY => remainingTime = totalDuration

\* C5: state == COMPLETED implies remainingSeconds == 0.
C5_CompletedHasNoTime == state = COMPLETED => remainingTime = 0

\* C6: onComplete is invoked exactly once per RUNNING->COMPLETED transition: with
\* onComplete configured and every pending update rendered, the number of
\* onComplete invocations equals the number of times the state changed from
\* RUNNING to COMPLETED.
C6_OnCompleteOncePerCompletion ==
  (config.onComplete /\ queued = NoUpdates /\ batched = NoUpdates)
    => onCompleteCalls = completions

\* C7: setDuration invoked while state is RUNNING, PAUSED or COMPLETED changes
\* neither state, totalDurationSeconds, remainingSeconds nor the banked offset,
\* in the call or in the render of its event, and totalDurationSeconds changes
\* only in a step taken from READY.
C7_SetDurationNoOpUnlessReady ==
  [][ /\ (last'.op = "setDuration" /\ state # READY)
           => UNCHANGED <<state, totalDuration, remainingTime, pausedTimeRef>>
      /\ totalDuration' # totalDuration => state = READY ]_vars

\* C8: start() invoked while state == RUNNING changes nothing: not the state, not
\* the run start anchor, not the set of timing sources.
C8_StartWhileRunningNoOp ==
  [][ (last'.op = "start" /\ state = RUNNING)
        => UNCHANGED <<state, startTimeRef, intervalRef, intervals>> ]_vars

\* C9: stop() invoked while state is COMPLETED or READY changes nothing; stop()
\* from COMPLETED leaves state == COMPLETED and remainingSeconds == 0.
C9_StopOutsideSourceStatesNoOp ==
  [][ (last'.op = "stop" /\ state \in {COMPLETED, READY})
        => UNCHANGED <<state, remainingTime, totalDuration, pausedTimeRef,
                       intervalRef, intervals>> ]_vars

\* C10: pause() invoked in any state other than RUNNING changes nothing, in the
\* call or in the render of its event: state, remainingSeconds,
\* totalDurationSeconds, the banked offset and the set of live timing sources
\* are all unchanged.
C10_PauseOutsideRunningNoOp ==
  [][ (last'.op = "pause" /\ state # RUNNING)
        => UNCHANGED <<state, remainingTime, totalDuration, pausedTimeRef,
                       startTimeRef, intervalRef, intervals, timeouts>> ]_vars

\* C11: paused time never counts as elapsed: the elapsed time the engine derives
\* remainingSeconds from (now - startTimeRef while RUNNING, the banked offset while
\* PAUSED) equals the wall-clock time spent in RUNNING since the session started
\* from READY, so the elapsed value right after a resume is the value banked at
\* the preceding pause however long the pause lasted.
C11_ElapsedIsRunningTime ==
  /\ (state = RUNNING /\ mounted /\ batched = NoUpdates)
       => now - startTimeRef = runningTime
  /\ (state = PAUSED /\ batched = NoUpdates) => pausedTimeRef = runningTime

\* C12: the value an evaluation writes depends only on wall-clock time: an
\* evaluation at accumulated running time e sets remainingSeconds to
\* max(0, totalDurationSeconds - floor(e / 1 second)), whatever evaluations ran
\* or were skipped before it (the value set is the one queued for the render).
C12_EvaluationWritesRunningTime ==
  (last.op = "tick" /\ mounted)
    => /\ queued.remainingTime = <<last.arg>>
       /\ last.arg = Max(0, totalDuration - (runningTime \div 1000))

\* C14: the engine never completes early: state is COMPLETED only when the
\* wall-clock time accumulated in RUNNING since the most recent entry into READY
\* is at least totalDurationSeconds.
C14_NeverCompletesEarly == state = COMPLETED => runningTime >= totalDuration * 1000

\* C15: whenever state == READY the banked offset is 0, so a start from READY
\* begins a fresh session (read between events).
C15_ReadyHasNoOffset == (state = READY /\ batched = NoUpdates) => pausedTimeRef = 0

\* C20: while the state remains PAUSED no step other than stop, reset or
\* setDuration changes remainingSeconds or invokes onTick.
C20_PausedHoldsRemaining ==
  [][ (state = PAUSED /\ state' = PAUSED /\ last'.op \notin {"stop", "reset", "setDuration"})
        => /\ remainingTime' = remainingTime
           /\ ~(last'.op = "tick" /\ config.onTick) ]_vars

\* C13: liveness: after start() from READY with no intervening pause, stop, reset
\* or setDuration, and with due interval callbacks continuing to run, a RUNNING
\* session whose wall clock has advanced by at least totalDurationSeconds
\* eventually reaches state == COMPLETED with remainingSeconds == 0.
C13_EventuallyCompletes ==
  (state = RUNNING /\ now - startTimeRef >= totalDuration * 1000)
    ~> (state = COMPLETED /\ remainingTime = 0)

\* The render after the completing callback has taken a session that ran its
\* full length from RUNNING to COMPLETED.
C13_Witness ==
  /\ state = COMPLETED
  /\ remainingTime = 0
  /\ last.op = "render"
  /\ last.from = RUNNING
  /\ completions = 1
  /\ now - startTimeRef >= totalDuration * 1000

\* C16: start() invoked when remainingSeconds == 0, in particular in state
\* COMPLETED, is a no-op: state stays unchanged, no timing source is created and
\* no callback is invoked; only reset leaves COMPLETED towards a new run.
C16_StartAtZeroNoOp ==
  [][ /\ (last'.op = "start" /\ (remainingTime = 0 \/ state = COMPLETED))
          => UNCHANGED <<state, remainingTime, intervals, intervalRef, startTimeRef,
                         timeouts, onCompleteCalls>>
      /\ (state = COMPLETED /\ state' # COMPLETED) => last'.op = "reset" ]_vars

\* C17: idempotence: from every reachable state a second pause() directly after
\* a pause() changes nothing of the engine state, rendered or pending, and the
\* same holds for stop() after stop() and reset() after reset().
C17_SecondCallChangesNothing ==
  [][ (last'.op \in {"pause", "stop", "reset"} /\ last.op = last'.op)
        => UNCHANGED <<settled, intervalRef, startTimeRef, pausedTimeRef, intervals,
                       timeouts, onCompleteCalls>> ]_vars

\* C18: for every integer minutes (0, negatives and values above 999 included)
\* setDuration(minutes) from READY keeps state == READY and sets
\* totalDurationSeconds = clamp(minutes, 1, 999) * 60 and
\* remainingSeconds = totalDurationSeconds (once its event is rendered).
C18_SetDurationFromReadyClamps ==
  LET clamped == IF last.arg < 1 THEN 1 ELSE IF last.arg > 999 THEN 999 ELSE last.arg
  IN (last.op = "setDuration" /\ last.from = READY /\ batched = NoUpdates)
       => /\ state = READY
          /\ totalDuration = clamped * 60
          /\ remainingTime = totalDuration

\* setDuration with a negative argument has raised the duration to one minute.
C18_Witness ==
  /\ last.op = "setDuration"
  /\ last.from = READY
  /\ last.arg < 0
  /\ batched = NoUpdates
  /\ totalDuration = 60
  /\ remainingTime = 60

\* C19: for an engine constructed with initialMinutes in 1..999, after any
\* sequence of operations with integer arguments totalDurationSeconds is an
\* integer in 60..59940.  (Where useTimer threw there is no engine.)
C19_TotalDurationInRange == constructed => totalDuration \in 60..59940

\* A paused engine was given setDuration with an argument below 1, which the
\* render of that event committed raised to the lower limit.
C19_Witness ==
  /\ last.op = "setDuration"
  /\ last.from = PAUSED
  /\ last.arg < 1
  /\ batched = NoUpdates
  /\ closure.totalDuration = MinDurationSeconds
  /\ totalDuration = MinDurationSeconds
  /\ pausedTimeRef = 0
  /\ state = READY

\* C21: state changes follow only the edges of the transition table:
\* READY->RUNNING, PAUSED->RUNNING, RUNNING->PAUSED, RUNNING->READY,
\* PAUSED->READY, COMPLETED->READY and RUNNING->COMPLETED; COMPLETED is entered
\* only from RUNNING and RUNNING is never entered from COMPLETED.
C21_OnlyTableEdges ==
  [][ state' # state
        => <<state, state'>> \in {<<READY, RUNNING>>, <<PAUSED, RUNNING>>,
                                  <<RUNNING, PAUSED>>, <<RUNNING, READY>>,
                                  <<PAUSED, READY>>, <<COMPLETED, READY>>,
                                  <<RUNNING, COMPLETED>>} ]_vars

\* C22: teardown releases the timing source: once the hook is unmounted no
\* further evaluation runs, so no interval callback mutates the engine or invokes
\* onTick or onComplete.
C22_NoEvaluationAfterUnmount == ~mounted => last.op # "tick"

\* C23: on every transition out of RUNNING (pause, stop, reset, completion)
\* cancelling the periodic source is the first effect of the handler: it precedes
\* the state change, the remainingSeconds update and every callback invocation.
\* A transition out of RUNNING is a handler run that finds the engine RUNNING
\* (rendered, nothing else pending) and sets another state.
C23_CancelFirstWhenLeavingRunning ==
  [][ (state = RUNNING /\ settled.state = RUNNING /\ settled'.state # RUNNING)
        => /\ effects(last'.op, last'.arg, rendered) # <<>>
           /\ Head(effects(last'.op, last'.arg, rendered)) = "clearInterval" ]_vars

\* C24: reset() has the same effect as stop(): from RUNNING and from PAUSED both
\* commands, and reset() from COMPLETED, leave the engine READY with
\* remainingSeconds == totalDurationSeconds (as the render of the event commits
\* them), offset 0 and no timing source.
C24_ResetSameAsStop ==
  [][ (\/ (last'.op \in {"stop", "reset"} /\ state \in {RUNNING, PAUSED})
       \/ (last'.op = "reset" /\ state = COMPLETED))
        => /\ settled'.state = READY
           /\ settled'.totalDuration = totalDuration
           /\ settled'.remainingTime = totalDuration
           /\ pausedTimeRef' = 0
           /\ intervalRef' = NoHandle
           /\ intervals' = {} ]_vars

\* C25: with autoReset, after a RUNNING->COMPLETED transition followed by no user
\* command, the delayed callback returns the engine to READY with
\* remainingSeconds == totalDurationSeconds; without autoReset the engine stays
\* COMPLETED until a user command.  (What the callback sets is what the next
\* render commits.)
C25_AutoResetRestoresReady ==
  [][ /\ (last'.op = "autoReset" /\ state = COMPLETED /\ completions >= 1)
          => (queuedState' = READY /\ queuedRemainingTime' = totalDuration)
      /\ (state = COMPLETED /\ ~autoReset) => state' = COMPLETED ]_vars

\* C26: the delayed auto-reset is not guarded against a user command
\* during the delay window: the callback still fires and performs a transition
\* to READY with remainingSeconds = totalDurationSeconds, whatever state the
\* engine is in at that moment.
C26_AutoResetWritesCurrentTotal ==
  (last.op = "autoReset" /\ mounted)
    => (queued.state = <<READY>> /\ queued.remainingTime = <<totalDuration>>)

\* floor(x * 2^f) for a double x >= 0 below 2^(30 - f).
RECURSIVE limbsValue(_)
limbsValue(limbs) ==
  IF limbs = <<>> THEN 0
  ELSE limbsValue(SubSeq(limbs, 1, Len(limbs) - 1)) * Limb + limbs[Len(limbs)]

fixedPoint(x, f) ==
  IF x.m = <<>> THEN 0
  ELSE LET shift == 0 - (x.e + f)
           kept == SubSeq(x.m, 1, Len(x.m) - (shift \div 13))
       IN limbsValue(longDivide(kept, 2^(shift % 13), 0, <<>>).q)

\* floor((a * 100 / d) * 2^20) in exact arithmetic, for 0 <= a <= d.
exactPercentFixed(a, d) ==
  LET whole == (a * 100) \div d
      r0 == (a * 100) % d
      d1 == (r0 * 2^10) \div d
      r1 == (r0 * 2^10) % d
      d2 == (r1 * 2^10) \div d
  IN (whole * 2^10 + d1) * 2^10 + d2

\* C27 (as stated): for totalDurationSeconds T > 0 and remainingSeconds r in
\* [0, T], display.progress satisfies progress * T == (T - r) * 100 and
\* 0 <= progress <= 100; for T == 0 progress is 0.
C27_ProgressExact ==
  IF totalDuration = 0 THEN display.progress = zero
  ELSE /\ multiply(display.progress, totalDuration)
            = multiply(fromInt(totalDuration - remainingTime), 100)
       /\ ~less(display.progress, zero)
       /\ ~less(fromInt(100), display.progress)

\* C27 (amended): progress is ((T - r) / T) * 100 evaluated in double arithmetic:
\* it lies in [0, 100], is 0 exactly when r == T and 100 exactly when r == 0,
\* agrees with the exact (T - r) * 100 / T to within 2^-20, and is 0 for T == 0.
C27_ProgressWithinRounding ==
  LET progress == display.progress
  IN IF totalDuration = 0 THEN progress = zero
     ELSE /\ ~less(progress, zero)
          /\ ~less(fromInt(100), progress)
          /\ (progress = zero <=> remainingTime = totalDuration)
          /\ (progress = fromInt(100) <=> remainingTime = 0)
          /\ fixedPoint(progress, 20)
               - exactPercentFixed(totalDuration - remainingTime, totalDuration)
                 \in {-1, 0, 1}

\* One third of a 3-second session has passed: progress is 33.33333333333333,
\* and three times that is not 100.
C27_Witness ==
  /\ totalDuration = 3
  /\ remainingTime = 2
  /\ last.op = "render"
  /\ multiply(display.progress, 3) # fromInt(100)
  /\ fixedPoint(display.progress, 20) = exactPercentFixed(1, 3)

\* The two decimal digits of n, for 0 <= n < 100.
twoDigits(n) == <<DigitChars[(n \div 10) + 1], DigitChars[(n % 10) + 1]>>

\* C28: formatTime(s) is MM:SS with two zero-padded digits per field
\* (floor(s/60), s mod 60) for 0 <= s < 3600, and HH:MM:SS with hours
\* floor(s/3600), minutes floor((s mod 3600)/60), seconds s mod 60 for
\* s >= 3600; 59940 seconds formats as 16:39:00.
C28_FormatTimeFields ==
  LET s == remainingTime
      out == formatTime(s)
  IN /\ s < 3600 =>
          out = twoDigits(s \div 60) \o <<":">> \o twoDigits(s % 60)
     /\ s >= 3600 =>
          out = twoDigits(s \div 3600) \o <<":">>
                  \o twoDigits((s % 3600) \div 60) \o <<":">>
                  \o twoDigits(s % 60)
     /\ s = 59940 => out = <<"1", "6", ":", "3", "9", ":", "0", "0">>

C28_Witness ==
  /\ last.op = "render"
  /\ remainingTime = 59939
  /\ formatTime(remainingTime) = <<"1", "6", ":", "3", "8", ":", "5", "9">>

\* HH:MM:SS and MM:SS as shapes of a formatted string.
isHoursFormat(str) == Len(str) = 8 /\ str[3] = ":" /\ str[6] = ":"
isMinutesFormat(str) == Len(str) = 5 /\ str[3] = ":"

\* C29 (as stated): the format is chosen by the total session length: a session
\* of at least 3600 seconds shows HH:MM:SS for every remainingSeconds value, and
\* MM:SS is shown only when the total is under one hour.
C29_FormatFollowsTotal ==
  /\ totalDuration >= 3600 => isHoursFormat(display.formatted)
  /\ totalDuration < 3600 => isMinutesFormat(display.formatted)

\* C29 (amended): the format is chosen by the value being displayed: HH:MM:SS
\* exactly while remainingSeconds is at least 3600 and MM:SS below that, whatever
\* the total session length.
C29_FormatFollowsRemaining ==
  LET formatted == display.formatted
  IN /\ isHoursFormat(formatted) <=> remainingTime >= 3600
     /\ isMinutesFormat(formatted) <=> remainingTime < 3600

C29_Witness ==
  /\ last.op = "render"
  /\ totalDuration = 3600
  /\ remainingTime = 3599
  /\ display.formatted = <<"5", "9", ":", "5", "9">>

\* C30: for every initialMinutes m of 1..999 the freshly constructed engine is
\* READY with totalDurationSeconds = remainingSeconds = m * 60, display.progress
\* is 0, no timing source is live, and for m = 15 display.formatted is 15:00.
C30_FreshEngine ==
  last.op = "init" =>
    /\ state = READY
    /\ totalDuration = last.arg * 60
    /\ remainingTime = last.arg * 60
    /\ display.progress = zero
    /\ intervals = {} /\ intervalRef = NoHandle /\ timeouts = <<>>
    /\ last.arg = 15 => display.formatted = <<"1", "5", ":", "0", "0">>

\* The position of the first x in seq.
indexOf(seq, x) == CHOOSE i \in 1..Len(seq) : seq[i] = x /\ \A j \in 1..(i - 1) : seq[j] # x

\* C31: every onTick(v) invocation happens inside an evaluation of a live timing
\* source with v the remainingSeconds value that evaluation writes; on the
\* completing evaluation onTick(0) precedes onComplete; and onTick is never
\* invoked after onComplete of the same session (no evaluation runs while the
\* state is still COMPLETED).
C31_TickCallbackWithinSession ==
  [][ (last'.op = "tick" /\ config.onTick) =>
        LET done == effects("tick", last'.arg, rendered)
        IN /\ \E iv \in intervals : iv.due <= now
           /\ mounted => queuedRemainingTime' = last'.arg
           /\ last'.arg <= 0 =>
                /\ last'.arg = 0
                /\ config.onComplete
                     => indexOf(done, "onTick") < indexOf(done, "onComplete")
           /\ state # COMPLETED ]_vars

\* C32: the capability guards match the source states of the transition table
\* (canStart <=> READY or PAUSED, canPause <=> RUNNING, canStop <=> RUNNING or
\* PAUSED, canReset <=> not READY), and a command invoked while its guard is
\* false leaves the engine state unchanged.
C32_GuardsMatchCommands ==
  [][ /\ canStart(state) <=> state \in {READY, PAUSED}
      /\ canPause(state) <=> state = RUNNING
      /\ canStop(state) <=> state \in {RUNNING, PAUSED}
      /\ canReset(state) <=> state # READY
      /\ ( \/ (last'.op = "start" /\ ~canStart(state))
           \/ (last'.op = "pause" /\ ~canPause(state))
           \/ (last'.op = "stop" /\ ~canStop(state))
           \/ (last'.op = "reset" /\ ~canReset(state)) )
         => UNCHANGED <<state, totalDuration, remainingTime, intervalRef, startTimeRef,
                        pausedTimeRef, intervals, timeouts>> ]_vars

\* C33: the keyboard handler issues a command only when its guard is true and
\* the event target is not an input element: Space calls start() if canStart,
\* otherwise pause() if canPause, otherwise nothing; Escape calls stop() only if
\* canStop; R calls reset() only if canReset.  Keyboard input alone never calls
\* start() while RUNNING nor stop() while COMPLETED.  (keyCommand is what the
\* attached listener issues; the guards and the state are the engine's.)
C33_KeyboardRespectsGuards ==
  [][ /\ \A code \in KeyCodes : keyCommand(closure, code, TRUE) = "none"
      /\ keyCommand(closure, "Space", FALSE) =
           (IF state \in {READY, PAUSED} THEN "start"
            ELSE IF state = RUNNING THEN "pause" ELSE "none")
      /\ keyCommand(closure, "Escape", FALSE) =
           (IF state \in {RUNNING, PAUSED} THEN "stop" ELSE "none")
      /\ keyCommand(closure, "KeyR", FALSE) =
           (IF state # READY THEN "reset" ELSE "none")
      /\ last'.op = "start" => (canStart(state) /\ state # RUNNING)
      /\ last'.op = "pause" => canPause(state)
      /\ last'.op = "stop" => (canStop(state) /\ state # COMPLETED)
      /\ last'.op = "reset" => canReset(state) ]_vars

\* C34: with autoReset disabled and a host that invokes each command only while
\* its guard is true (setDuration only in READY), in every reachable state of
\* the mounted hook, read between events, exactly one timing source is live if
\* state = RUNNING and none otherwise; after teardown none is live.
C34_OneSourceIffRunning ==
  (~autoReset /\ batched = NoUpdates) =>
    /\ mounted => Cardinality(intervals) = (IF state = RUNNING THEN 1 ELSE 0)
    /\ ~mounted => intervals = {}

\* C35: guard-respecting use leaves an interval behind only when autoReset is
\* enabled: without autoReset intervalRef holds the handle of every live
\* interval; and an interval whose handle intervalRef no longer holds stays live
\* through every later step, pause, stop, reset and teardown included.
C35_RaceLeavesIntervalBehind ==
  [][ /\ ~autoReset => \A iv \in intervals' : iv.id = intervalRef'
      /\ \A iv \in intervals :
           iv.id # intervalRef => \E kept \in intervals' : kept.id = iv.id ]_vars

\* With autoReset the guard-respecting host has stopped the session it started
\* after the delayed callback had set READY on a live interval: that interval
\* has outlived the start() that overwrote its handle and the stop().
C35_Witness ==
  /\ autoReset
  /\ mounted
  /\ last.op = "stop"
  /\ last.from = RUNNING
  /\ batched = NoUpdates
  /\ state = READY
  /\ intervalRef = NoHandle
  /\ Cardinality(intervals) = 1

\* C36: within one session (from a start out of READY until the next stop,
\* reset, setDuration or completion) remainingSeconds never increases from one
\* step to the next, across evaluations, pause/resume cycles and redundant
\* command calls (the wall clock never goes backwards in this model).
C36_RemainingNeverIncreasesInSession ==
  [][ (state \in {RUNNING, PAUSED} /\ last'.op \notin {"stop", "reset", "setDuration"})
        => remainingTime' <= remainingTime ]_vars

\* C37: TimerInput reports only valid durations: every onChange(n) made by
\* handleInputChange or handleBlur has min <= n <= max (1..999), and after a
\* blur the number shown in the field is within [min, max] and numerically
\* equal to the value the parent holds (the value last reported to it).
C37_InputReportsValidDurations ==
  /\ (last.op \in {"change", "blur"} /\ last.arg # NoCall)
       => /\ last.arg \in MinMinutes..MaxMinutes
          /\ timerInput.value = last.arg
  /\ last.op = "blur"
       => /\ isDigits(timerInput.inputValue)
          /\ parseInt(timerInput.inputValue) \in MinMinutes..MaxMinutes
          /\ parseInt(timerInput.inputValue) = timerInput.value

\* A blur has clamped a number above the range to max and reported it.
C37_Witness ==
  /\ last.op = "blur"
  /\ last.arg = MaxMinutes
  /\ timerInput.inputValue = <<"9", "9", "9">>
  /\ timerInput.value = MaxMinutes
  /\ totalDuration = MaxDurationSeconds

\* C38: in the tick-counting MeditationTimer driven through its rendered
\* controls, state = 'completed' exactly when timeLeft = 0, state = 'ready'
\* implies timeLeft = duration * 60, 0 <= timeLeft <= duration * 60, and each
\* 1-second tick in 'running' decreases timeLeft by exactly 1.
C38_TickCounterInvariant ==
  LET w == meditationTimer
  IN /\ w.state = COMPLETED <=> w.timeLeft = 0
     /\ w.state = READY => w.timeLeft = w.duration * 60
     /\ 0 <= w.timeLeft /\ w.timeLeft <= w.duration * 60
     /\ w.duration \in 1..999
     /\ last.op = "render" => w.timeLeft < last.arg

====
